---- MODULE Spec2Model ----
(***************************************************************************)
(* A model of src/src/I2CDevice.h: class I2CDevice, a wrapper that pairs   *)
(* a fixed 7-bit address with a shared TwoWire transport, and class        *)
(* HasI2CDevice, which owns one I2CDevice and forwards three calls to it.  *)
(*                                                                         *)
(* Two I2CDevice objects share the one transport: dev is driven through    *)
(* the whole public interface of I2CDevice; bus is the protected member    *)
(* of a HasI2CDevice object and is driven only through the three public    *)
(* methods of HasI2CDevice.                                                *)
(*                                                                         *)
(* TwoWire is not part of the repository.  Its operators (Wire...) follow  *)
(* the transport contract: an outbound buffer of bounded capacity that     *)
(* begin resets and end transmits, a receive buffer that requestFrom       *)
(* fills and read pops, and a five-valued status that the environment      *)
(* chooses for every end-of-transaction call.                              *)
(***************************************************************************)
EXTENDS Integers, Sequences, FiniteSets

VARIABLES
  dev_address,  \* I2CDevice::dev_address of every object
  m_status,     \* I2CDevice::m_status of every object
  wire,         \* the TwoWire object every I2CDevice::wire refers to
  call,         \* the call that ran last: method, object, arguments, result,
                \* and the transport calls it made, in order
  constructed,  \* history: each object's address argument and the content of
                \* m_status when its constructor returned
  ended,        \* history: <<s>> when the object's latest endTransmission call
                \* got status s from the transport, <<>> before the first one
  delivered,    \* history: the bytes the latest requestFrom put in the buffer
  consumed      \* history: the number of read() calls since that requestFrom

vars == <<dev_address, m_status, wire, call, constructed, ended, delivered, consumed>>

----------------------------------------------------------------------------
(* Program constants *)

SUCCESS == 0
DATA_TOO_LONG == 1
NACK_ON_ADDRESS == 2
NACK_ON_DATA == 3
OTHER_ERROR == 4
READ_EMPTY == -1

(* Bounds of the model *)

\* slots of the transport's outbound buffer
TxCapacity == 2
\* the largest count passed to requestBytes, and the most bytes a peer holds
MaxRequest == 2

----------------------------------------------------------------------------
(* Value sets *)

Status == {SUCCESS, DATA_TOO_LONG, NACK_ON_ADDRESS, NACK_ON_DATA, OTHER_ERROR}

\* m_status has no initializer: after construction it holds whatever byte
\* its storage held.  Two bytes stand for it: a status code (the zero of
\* static storage) and a byte that is no status code.
UninitBytes == {SUCCESS, 255}

Standalone == {"dev"}
OwnerBus == "bus"
Devices == Standalone \cup {OwnerBus}

\* The constructor arguments tried: the owner on the default address 0x0 and
\* the device on 0x50, and both objects on 0x50.
AddressPlans ==
  { [d \in Devices |-> IF d = OwnerBus THEN 0 ELSE 80],
    [d \in Devices |-> 80] }

TxBytes == {170}
\* the bytes a peer sends, in order: the first k of 17, 34, 51, ...
PeerBytes(k) == [i \in 1..k |-> 17 * i]

\* what the addressed peer may hold when a request arrives
HeldOptions == { PeerBytes(k) : k \in 0..MaxRequest }

SeqsUpTo(S, n) == UNION { [1..k -> S] : k \in 0..n }

Min(a, b) == IF a <= b THEN a ELSE b

Take(s, n) == SubSeq(s, 1, Min(n, Len(s)))

Drop(s, n) == SubSeq(s, Min(n, Len(s)) + 1, Len(s))

----------------------------------------------------------------------------
(* The transport (TwoWire), from its contract *)

WireInit == [txBuffer |-> <<>>, rxBuffer |-> <<>>]

WireBeginTransmission(w, address) == [w EXCEPT !.txBuffer = <<>>]

\* the number of bytes of data the outbound buffer accepts
WireAccepts(w, data) == Min(Len(data), TxCapacity - Len(w.txBuffer))

WireWrite(w, data) ==
  [w EXCEPT !.txBuffer = w.txBuffer \o Take(data, WireAccepts(w, data))]

WireEndTransmission(w) == [w EXCEPT !.txBuffer = <<>>]

\* held: the bytes the addressed peer has ready to send
WireRequestFrom(w, address, quantity, held) ==
  [w EXCEPT !.rxBuffer = Take(held, quantity)]

WireAvailable(w) == Len(w.rxBuffer)

WireReadValue(w) == IF w.rxBuffer = <<>> THEN READ_EMPTY ELSE Head(w.rxBuffer)

WireRead(w) == IF w.rxBuffer = <<>> THEN w ELSE [w EXCEPT !.rxBuffer = Tail(w.rxBuffer)]

\* the records of the transport calls an operation makes
BeginEvent(address) == [fn |-> "beginTransmission", address |-> address]

WriteEvent(data, n) == [fn |-> "write", data |-> data, accepted |-> n]

EndEvent(w, stop, s) ==
  [fn |-> "endTransmission", payload |-> w.txBuffer, sendStop |-> stop, status |-> s]

RequestEvent(address, quantity, n) ==
  [fn |-> "requestFrom", address |-> address, quantity |-> quantity, received |-> n]

AvailableEvent(n) == [fn |-> "available", count |-> n]

ReadEvent(v) == [fn |-> "read", value |-> v]

----------------------------------------------------------------------------
(* Construction *)

Init ==
  /\ dev_address \in AddressPlans
  /\ m_status \in [Devices -> UninitBytes]
  /\ wire = WireInit
  /\ call = [op |-> "construct", dev |-> OwnerBus, arg |-> <<>>, ret |-> 0, wire |-> <<>>]
  /\ constructed = [d \in Devices |-> [address |-> dev_address[d], status |-> m_status[d]]]
  /\ ended = [d \in Devices |-> <<>>]
  /\ delivered = <<>>
  /\ consumed = 0

----------------------------------------------------------------------------
(* class I2CDevice *)

Returns(op, d, arg, ret, trace) ==
  call' = [op |-> op, dev |-> d, arg |-> arg, ret |-> ret, wire |-> trace]

getAddress(d) ==
  /\ Returns("getAddress", d, <<>>, dev_address[d], <<>>)
  /\ UNCHANGED <<dev_address, m_status, wire, constructed, ended, delivered, consumed>>

getStatus(d) ==
  /\ Returns("getStatus", d, <<>>, m_status[d], <<>>)
  /\ UNCHANGED <<dev_address, m_status, wire, constructed, ended, delivered, consumed>>

getBusStatus(d) ==
  /\ Returns("getBusStatus", d, <<>>, m_status[d], <<>>)
  /\ UNCHANGED <<dev_address, m_status, wire, constructed, ended, delivered, consumed>>

\* ret is what the sink receives: the argument of print, then that of println
printBusStatus(d) ==
  /\ Returns("printBusStatus", d, <<>>, <<"Current I2C status : ", m_status[d]>>, <<>>)
  /\ UNCHANGED <<dev_address, m_status, wire, constructed, ended, delivered, consumed>>

beginTransmission_clearsStatus(d) ==
  /\ wire' = WireBeginTransmission(wire, dev_address[d])
  /\ m_status' = [m_status EXCEPT ![d] = SUCCESS]
  /\ Returns("beginTransmission", d, <<>>, 0, <<BeginEvent(dev_address[d])>>)
  /\ UNCHANGED <<dev_address, constructed, ended, delivered, consumed>>

beginTransmission(d) ==
  /\ wire' = WireBeginTransmission(wire, dev_address[d])
  /\ Returns("beginTransmission", d, <<>>, 0, <<BeginEvent(dev_address[d])>>)
  /\ UNCHANGED <<dev_address, m_status, constructed, ended, delivered, consumed>>

write(d, data) ==
  /\ wire' = WireWrite(wire, <<data>>)
  /\ Returns("write", d, <<data>>, WireAccepts(wire, <<data>>),
             <<WriteEvent(<<data>>, WireAccepts(wire, <<data>>))>>)
  /\ UNCHANGED <<dev_address, m_status, constructed, ended, delivered, consumed>>

writeBuffer_returnsSize(d, data) ==
  /\ wire' = WireWrite(wire, data)
  /\ Returns("writeBuffer", d, data, Len(data),
             <<WriteEvent(data, WireAccepts(wire, data))>>)
  /\ UNCHANGED <<dev_address, m_status, constructed, ended, delivered, consumed>>

writeBuffer(d, data) ==
  /\ wire' = WireWrite(wire, data)
  /\ Returns("writeBuffer", d, data, WireAccepts(wire, data),
             <<WriteEvent(data, WireAccepts(wire, data))>>)
  /\ UNCHANGED <<dev_address, m_status, constructed, ended, delivered, consumed>>

available(d) ==
  /\ Returns("available", d, <<>>, WireAvailable(wire),
             <<AvailableEvent(WireAvailable(wire))>>)
  /\ UNCHANGED <<dev_address, m_status, wire, constructed, ended, delivered, consumed>>

\* the history counter stops one past the longest delivery
Counted == Min(consumed + 1, MaxRequest + 1)

\* read() declared to return uint8_t: the sentinel -1 comes out as 255
read_uint8(d) ==
  /\ wire' = WireRead(wire)
  /\ Returns("read", d, <<>>, WireReadValue(wire) % 256, <<ReadEvent(WireReadValue(wire))>>)
  /\ consumed' = Counted
  /\ UNCHANGED <<dev_address, m_status, constructed, ended, delivered>>

read(d) ==
  /\ wire' = WireRead(wire)
  /\ Returns("read", d, <<>>, WireReadValue(wire), <<ReadEvent(WireReadValue(wire))>>)
  /\ consumed' = Counted
  /\ UNCHANGED <<dev_address, m_status, constructed, ended, delivered>>

\* the history of an endTransmission call that got status s
Ended(d, s) == ended' = [ended EXCEPT ![d] = <<s>>]

\* the transport call made, and its status left unstored: the stale m_status returned
endTransmission_stale(d) ==
  \E s \in Status :
    /\ wire' = WireEndTransmission(wire)
    /\ Ended(d, s)
    /\ Returns("endTransmission", d, <<>>, m_status[d], <<EndEvent(wire, 1, s)>>)
    /\ UNCHANGED <<dev_address, m_status, constructed, delivered, consumed>>

endTransmission(d) ==
  \E s \in Status :
    /\ wire' = WireEndTransmission(wire)
    /\ m_status' = [m_status EXCEPT ![d] = s]
    /\ Ended(d, s)
    /\ Returns("endTransmission", d, <<>>, m_status'[d], <<EndEvent(wire, 1, s)>>)
    /\ UNCHANGED <<dev_address, constructed, delivered, consumed>>

\* m_status as one cell per transport instead of one per object
endTransmissionStop_shared(d, sendStop) ==
  \E s \in Status :
    /\ wire' = WireEndTransmission(wire)
    /\ m_status' = [e \in Devices |-> s]
    /\ Ended(d, s)
    /\ Returns("endTransmissionStop", d, <<sendStop>>, s, <<EndEvent(wire, sendStop, s)>>)
    /\ UNCHANGED <<dev_address, constructed, delivered, consumed>>

endTransmissionStop(d, sendStop) ==
  \E s \in Status :
    /\ wire' = WireEndTransmission(wire)
    /\ m_status' = [m_status EXCEPT ![d] = s]
    /\ Ended(d, s)
    /\ Returns("endTransmissionStop", d, <<sendStop>>, m_status'[d],
               <<EndEvent(wire, sendStop, s)>>)
    /\ UNCHANGED <<dev_address, constructed, delivered, consumed>>

\* wire.requestFrom(address, quantity) on behalf of requestBytes(noBytes),
\* which returns ret
Request(d, noBytes, address, quantity, held, ret) ==
  /\ wire' = WireRequestFrom(wire, address, quantity, held)
  /\ delivered' = wire'.rxBuffer
  /\ consumed' = 0
  /\ call' = [op |-> "requestBytes", dev |-> d, arg |-> <<noBytes>>, ret |-> ret,
              held |-> held,
              wire |-> <<RequestEvent(address, quantity, Len(wire'.rxBuffer))>>]

\* one byte fewer asked of the transport than the caller asked for
requestBytes_offByOne(d, noBytes) ==
  \E held \in HeldOptions :
    /\ Request(d, noBytes, dev_address[d], IF noBytes > 0 THEN noBytes - 1 ELSE 0, held,
               Min(IF noBytes > 0 THEN noBytes - 1 ELSE 0, Len(held)))
    /\ UNCHANGED <<dev_address, m_status, constructed, ended>>

\* the two arguments of requestFrom in the wrong order
requestBytes_swapped(d, noBytes) ==
  \E held \in HeldOptions :
    /\ Request(d, noBytes, noBytes, dev_address[d], held, Min(dev_address[d], Len(held)))
    /\ UNCHANGED <<dev_address, m_status, constructed, ended>>

\* the request's outcome stored as a status
requestBytes_recordsStatus(d, noBytes) ==
  \E held \in HeldOptions :
    /\ Request(d, noBytes, dev_address[d], noBytes, held, Min(noBytes, Len(held)))
    /\ m_status' = [m_status EXCEPT ![d] =
                      IF Len(held) >= noBytes THEN SUCCESS ELSE OTHER_ERROR]
    /\ UNCHANGED <<dev_address, constructed, ended>>

requestBytes(d, noBytes) ==
  \E held \in HeldOptions :
    /\ Request(d, noBytes, dev_address[d], noBytes, held, Min(noBytes, Len(held)))
    /\ UNCHANGED <<dev_address, m_status, constructed, ended>>

getWireInstance(d) ==
  /\ Returns("getWireInstance", d, <<>>, "wire", <<>>)
  /\ UNCHANGED <<dev_address, m_status, wire, constructed, ended, delivered, consumed>>

getWireHardwareAddress(d) ==
  /\ Returns("getWireHardwareAddress", d, <<>>, "wire", <<>>)
  /\ UNCHANGED <<dev_address, m_status, wire, constructed, ended, delivered, consumed>>

\* the two transport calls of detect()
Probe(d) == wire' = WireEndTransmission(WireBeginTransmission(wire, dev_address[d]))

ProbeTrace(d, s) ==
  << BeginEvent(dev_address[d]),
     EndEvent(WireBeginTransmission(wire, dev_address[d]), 1, s) >>

\* the probe written with this->endTransmission(), which stores the status
detect_recordsStatus(d) ==
  \E s \in Status :
    /\ Probe(d)
    /\ m_status' = [m_status EXCEPT ![d] = s]
    /\ Returns("detect", d, <<>>, s = 0, ProbeTrace(d, s))
    /\ UNCHANGED <<dev_address, constructed, ended, delivered, consumed>>

\* the status converted to bool instead of compared with 0
detect_truthy(d) ==
  \E s \in Status :
    /\ Probe(d)
    /\ Returns("detect", d, <<>>, s # 0, ProbeTrace(d, s))
    /\ UNCHANGED <<dev_address, m_status, constructed, ended, delivered, consumed>>

detect(d) ==
  \E s \in Status :
    /\ Probe(d)
    /\ Returns("detect", d, <<>>, s = 0, ProbeTrace(d, s))
    /\ UNCHANGED <<dev_address, m_status, constructed, ended, delivered, consumed>>

----------------------------------------------------------------------------
(* class HasI2CDevice *)

HasI2CDevice_getBusStatus == getBusStatus(OwnerBus)

HasI2CDevice_printBusStatus == printBusStatus(OwnerBus)

HasI2CDevice_detect == detect(OwnerBus)

----------------------------------------------------------------------------
(* The callers: any public method of dev, any public method of the owner *)

Next ==
  \/ \E d \in Standalone : getAddress(d)
  \/ \E d \in Standalone : getStatus(d)
  \/ \E d \in Standalone : getBusStatus(d)
  \/ \E d \in Standalone : printBusStatus(d)
  \/ \E d \in Standalone : getWireInstance(d)
  \/ \E d \in Standalone : getWireHardwareAddress(d)
  \/ \E d \in Standalone : beginTransmission(d)
  \/ \E d \in Standalone, b \in TxBytes : write(d, b)
  \/ \E d \in Standalone, data \in SeqsUpTo(TxBytes, TxCapacity + 1) : writeBuffer(d, data)
  \/ \E d \in Standalone : available(d)
  \/ \E d \in Standalone : read(d)
  \/ \E d \in Standalone : endTransmission(d)
  \/ \E d \in Standalone, sendStop \in {0, 1} : endTransmissionStop(d, sendStop)
  \/ \E d \in Standalone, noBytes \in 0..MaxRequest : requestBytes(d, noBytes)
  \/ \E d \in Standalone : detect(d)
  \/ HasI2CDevice_getBusStatus
  \/ HasI2CDevice_printBusStatus
  \/ HasI2CDevice_detect

Spec == Init /\ [][Next]_vars

----------------------------------------------------------------------------
(* Properties *)

EndOps == {"endTransmission", "endTransmissionStop"}

\* the last transport call the latest operation made
LastWireCall == call.wire[Len(call.wire)]

\* C1: status passthrough.  Each endTransmission overload returns exactly the
\* status the transport returned to it, whichever of the five it is, and every
\* getBusStatus() or getStatus() call on the object afterwards, up to its next
\* endTransmission, returns that same status.
C1_StatusPassthrough ==
  /\ call.op \in EndOps =>
       /\ LastWireCall.fn = "endTransmission"
       /\ call.ret = LastWireCall.status
       /\ ended[call.dev] = <<call.ret>>
  /\ (call.op \in {"getBusStatus", "getStatus"} /\ ended[call.dev] # <<>>) =>
       call.ret = ended[call.dev][1]

C1_Witness ==
  /\ call.op = "getBusStatus"
  /\ call.dev = "dev"
  /\ ended["dev"] = <<NACK_ON_DATA>>
  /\ wire.rxBuffer # <<>>

C3_Detect ==
  call.op = "detect" =>
    /\ Len(call.wire) = 2
    /\ call.wire[1] = BeginEvent(constructed[call.dev].address)
    /\ call.wire[2].fn = "endTransmission"
    /\ call.wire[2].payload = <<>>
    /\ call.ret \in BOOLEAN
    /\ call.ret <=> (call.wire[2].status = SUCCESS)

\* a probe answered with a NACK on the address
C3_Witness ==
  /\ call.op = "detect"
  /\ call.dev = "dev"
  /\ call.wire[2].status = NACK_ON_ADDRESS
  /\ call.ret = FALSE

\* C4, as claimed: requestBytes() stores the outcome of the request in
\* m_status, so that a short read shows in getBusStatus() after the call.
C4_Original ==
  (/\ call.op = "requestBytes"
   /\ ended[call.dev] # <<>>
   /\ call.ret < call.arg[1]) => m_status[call.dev] # SUCCESS

\* C4, amended: requestBytes() never writes m_status, so getBusStatus()
\* reports after the call what it reported before it; the outcome of the
\* request shows only in the returned count, which is the number of bytes
\* now in the receive buffer and at most the number asked for.
C4_RequestKeepsStatus ==
  [][call'.op = "requestBytes" =>
       /\ m_status' = m_status
       /\ call'.ret = Len(wire'.rxBuffer)
       /\ call'.ret <= call'.arg[1]]_vars

C4_Witness ==
  /\ call.op = "requestBytes"
  /\ call.dev = "dev"
  /\ call.ret < call.arg[1]
  /\ ended["dev"] = <<SUCCESS>>
  /\ m_status["dev"] = SUCCESS

\* C5: a read() made while available() is 0 returns -1 and changes neither
\* any object's m_status nor the receive buffer.
C5_ReadSentinel ==
  [][(call'.op = "read" /\ WireAvailable(wire) = 0) =>
       /\ call'.ret = READ_EMPTY
       /\ m_status' = m_status
       /\ wire'.rxBuffer = wire.rxBuffer]_vars

\* a read of the empty buffer by an object whose status has been recorded
C5_Witness ==
  /\ call.op = "read"
  /\ call.ret = READ_EMPTY
  /\ delivered = <<>>
  /\ ended[call.dev] = <<NACK_ON_DATA>>

\* C6: write(buffer, N) returns the number of bytes the transport accepted:
\* N when the outbound buffer has at least N free slots, the M free slots when
\* M < N; those bytes and no others are queued, and m_status is not changed.
C6_WriteCount ==
  [][call'.op = "writeBuffer" =>
       /\ call'.ret = (IF TxCapacity - Len(wire.txBuffer) >= Len(call'.arg)
                       THEN Len(call'.arg)
                       ELSE TxCapacity - Len(wire.txBuffer))
       /\ wire'.txBuffer = wire.txBuffer \o SubSeq(call'.arg, 1, call'.ret)
       /\ m_status' = m_status]_vars

\* a truncated write: some bytes accepted, not all
C6_Witness ==
  /\ call.op = "writeBuffer"
  /\ call.ret > 0
  /\ call.ret < Len(call.arg)

\* C7: when the peer holds k bytes, requestBytes(k) returns k and puts those
\* k bytes in the receive buffer; from then on the i-th read() returns the
\* i-th of the delivered bytes, available() is the number not yet read, and
\* every read() past the last byte returns -1.
C7_RequestThenRead ==
  /\ (call.op = "requestBytes" /\ Len(call.held) = call.arg[1]) =>
       /\ call.ret = call.arg[1]
       /\ delivered = call.held
       /\ wire.rxBuffer = call.held
  /\ call.op = "read" =>
       call.ret = (IF consumed <= Len(delivered) THEN delivered[consumed] ELSE READ_EMPTY)
  /\ call.op = "available" => call.ret = Len(Drop(delivered, consumed))
  /\ wire.rxBuffer = Drop(delivered, consumed)

\* the read after the last of at least two delivered bytes, by an object that
\* completed a write transaction before
C7_Witness ==
  /\ call.op = "read"
  /\ Len(delivered) >= 2
  /\ consumed = Len(delivered) + 1
  /\ ended[call.dev] = <<SUCCESS>>

\* C8: dev_address keeps the constructor's argument: getAddress() returns it,
\* and beginTransmission(), requestBytes() and detect() pass it to the
\* transport.
C8_AddressImmutable ==
  /\ \A d \in Devices : dev_address[d] = constructed[d].address
  /\ call.op = "getAddress" => call.ret = constructed[call.dev].address
  /\ call.op \in {"beginTransmission", "detect"} =>
       call.wire[1] = BeginEvent(constructed[call.dev].address)
  /\ call.op = "requestBytes" =>
       /\ call.wire[1].fn = "requestFrom"
       /\ call.wire[1].address = constructed[call.dev].address
       /\ call.wire[1].quantity = call.arg[1]

C8_Witness ==
  /\ call.op = "requestBytes"
  /\ call.dev = "dev"
  /\ call.arg = <<2>>
  /\ call.wire[1].address = 80
  /\ dev_address[OwnerBus] = 0

====
